---- MODULE Spec2Model ----
(***************************************************************************)
(* A model of faux.py: the fixture resolver (Fixtures.find_fixtures), the  *)
(* loader registry (FixtureLoader), the materializer (Fixtures.setup,      *)
(* load_fixtures, teardown) and the lifecycle binder (wrap_method,         *)
(* wrap_class).                                                            *)
(*                                                                         *)
(* A path is a record [dir, base, ext]; a relative file name has dir = "". *)
(* The file system is the set of paths that are regular files, and the     *)
(* parsed content of each.  The database is the set of tables that exist   *)
(* and the rows of each table, in insertion order.                         *)
(***************************************************************************)
EXTENDS Integers, Sequences, FiniteSets, TLC

VARIABLES
    has_fixtures_dirs,  \* whether __init__ set the attribute self.fixtures_dirs
    fixtures_dirs,      \* self.fixtures_dirs, when set
    files,              \* the regular files of the file system
    content,            \* what each file parses to
    subclasses,         \* FixtureLoader.__subclasses__(), in definition order
    yaml_installed,     \* whether "import yaml" succeeded
    ret,                \* the outcome of the last direct call of the resolver or registry
    db,                 \* the in-memory database: tables and rows
    session,            \* the session attribute of the test class (0: never assigned)
    handles,            \* number of sessions made by self._session_class()
    wrapped,            \* the function wrapped by wrap_method: its resolved fixtures
    pc,                 \* position of the running wrapper
    pending,            \* how the test body ended, while the finally clause runs
    log,                \* what the current invocation of the wrapper has done, in order
    outcome,            \* what the caller of the last invocation saw
    runs,               \* number of invocations started
    cls,                \* the attributes of the class given to wrap_class
    orig_cls,           \* that class as it was before wrap_class
    cls_fixtures,       \* the fixtures the installed hooks close over
    wc_result,          \* the outcome of wrap_class
    last_call,          \* the last call of a class-level hook: its name and what it ran
    calls,              \* number of hook calls made
    hist                \* the direct calls of setup and teardown made so far, in order

vars == <<has_fixtures_dirs, fixtures_dirs, files, content, subclasses,
          yaml_installed, ret, db, session, handles, wrapped, pc, pending, log,
          outcome, runs, cls, orig_cls, cls_fixtures, wc_result, last_call, calls,
          hist>>

envVars == <<has_fixtures_dirs, fixtures_dirs, files, content, subclasses, yaml_installed>>
wrapVars == <<wrapped, pc, pending, log, outcome, runs>>
classVars == <<cls, orig_cls, cls_fixtures, wc_result, last_call, calls>>
dbVars == <<db, session, handles>>

----------------------------------------------------------------------------
(* Bounds *)

MaxFiles == 2      \* files in the file system besides the test file
MaxNames == 2      \* explicit fixture names given to the decorator
MaxGroups == 2     \* fixture groups in one fixture file
MaxRuns == 2       \* invocations of the wrapped test function
MaxHooks == 2      \* aliases of one kind the class defines before it is bound
MaxCalls == 2      \* calls of class-level hooks
MaxSteps == 4      \* direct calls of setup and teardown

----------------------------------------------------------------------------
(* Sequences *)

Range(s) == {s[i] : i \in 1..Len(s)}

InSeq(x, s) == \E i \in 1..Len(s) : s[i] = x

SeqsUpTo(S, n) == UNION {[1..k -> S] : k \in 0..n}

Orderings(S) == {s \in [1..Cardinality(S) -> S] : Range(s) = S}

RECURSIVE Flatten(_)
Flatten(ss) == IF ss = <<>> THEN <<>> ELSE Head(ss) \o Flatten(Tail(ss))

----------------------------------------------------------------------------
(* Paths and the file system *)

Path(d, b, e) == [dir |-> d, base |-> b, ext |-> e]

NoPath == Path("", "", "")

\* os.path.isabs
isabs(p) == p.dir # "" /\ p.dir \in {"/t", "/d1", "/d2", "/x"}

\* os.path.abspath, with the working directory "/": a relative directory
\* "d1" names "/d1".
abspath(d) == IF d \in {"/t", "/d1", "/d2", "/x"} THEN d ELSE "/" \o d

\* os.path.join(directory, filename) of a relative file name
join(d, p) == IF isabs(p) THEN p ELSE [p EXCEPT !.dir = d]

\* os.path.splitext: (path without extension, extension)
splitext(p) == <<[p EXCEPT !.ext = ""], p.ext>>

\* os.path.dirname
dirname(p) == p.dir

\* os.path.isfile
isfile(p, fs) == p \in fs

\* The file the test unit is defined in: sys.modules[obj.__module__].__file__
test_file_path == Path("/t", "test_x", ".py")

\* glob.glob("%s.*" % filepath): the files named filepath plus any extension
GlobSet(stem, fs) == {p \in fs : splitext(p)[1] = stem}

FileUniverse == {Path("/t", "test_x", ".json"), Path("/t", "test_x", ".yml"),
                 Path("/t", "test_x", ".txt"), Path("/t", "users", ".json"),
                 Path("/d1", "users", ".json"), Path("/d2", "users", ".json"),
                 Path("/x", "other", ".txt")}

NameUniverse == {Path("", "users", ".json"), Path("", "test_x", ".txt"),
                 Path("/x", "other", ".txt"), Path("/d1", "users", ".json")}

\* The fixtures_dirs arguments of Fixtures(...): <<"None">> is the default
\* (no directories supplied); "d2" is a relative directory.
DirsGiven == {<<"None">>, <<>>, <<"/d1">>, <<"/d1", "d2">>, <<"d2", "/d1">>}

----------------------------------------------------------------------------
(* The loader registry: loaders.py *)

JSONLoader == [name |-> "JSONLoader", has_extensions |-> TRUE,
               extensions |-> <<".json", ".js">>]

YAMLLoader == [name |-> "YAMLLoader", has_extensions |-> TRUE,
               extensions |-> <<".yaml", ".yml">>]

\* A subclass of FixtureLoader defined without an extensions attribute.
BareLoader == [name |-> "BareLoader", has_extensions |-> FALSE, extensions |-> <<>>]

Registries == {<<JSONLoader, YAMLLoader>>, <<JSONLoader, YAMLLoader, BareLoader>>}

Result(k, v, p) == [kind |-> k, value |-> v, path |-> p]

\* FixtureLoader.supported_extensions: reads c.extensions of every subclass.
supported_extensions(reg) ==
    IF \E i \in 1..Len(reg) : ~reg[i].has_extensions
    THEN Result("AttributeError", <<>>, NoPath)
    ELSE Result("ok", Flatten([i \in 1..Len(reg) |-> reg[i].extensions]), NoPath)

\* The content of a file its parser rejects.
Malformed == <<[kind |-> "malformed", target |-> "", records |-> <<>>]>>

\* c()._load(filename): the parser of the chosen loader.
_load(c, filename, cont, yaml) ==
    IF c.name = "YAMLLoader" /\ ~yaml
    THEN Result("NameError", <<>>, NoPath)
    ELSE IF cont[filename] = Malformed
         THEN Result("ParseError", <<>>, filename)
         ELSE Result("ok", cont[filename], filename)

\* The loaders that load's loop reaches with a matching extension, in order.
Dispatch(reg, extension) ==
    SelectSeq(reg, LAMBDA c : c.has_extensions /\ InSeq(extension, c.extensions))

\* What load does when no loader matched: the raise statement names
\* RuntimeException, which nothing defines.
NoLoaderMatched(filename) == Result("NameError", <<>>, NoPath)

\* A variant of load that looks for a loader before it looks at the file.
loadDispatchFirst(filename, fs, cont, reg, yaml) ==
    LET extension == splitext(filename)[2]
        matching == Dispatch(reg, extension)
    IN  IF matching = <<>>
        THEN NoLoaderMatched(filename)
        ELSE IF ~isfile(filename, fs)
             THEN Result("IOError", <<>>, filename)
             ELSE _load(Head(matching), filename, cont, yaml)

\* FixtureLoader.load
load(filename, fs, cont, reg, yaml) ==
    IF ~isfile(filename, fs)
    THEN Result("IOError", <<>>, filename)
    ELSE LET extension == splitext(filename)[2]
             matching == Dispatch(reg, extension)
         IN  IF matching # <<>>
             THEN _load(Head(matching), filename, cont, yaml)
             ELSE NoLoaderMatched(filename)

----------------------------------------------------------------------------
(* The fixture resolver: Fixtures.find_fixtures *)

\* Fixtures.__init__: fixtures_dirs is an attribute only when directories
\* were supplied; None stands for "not supplied".
InitHasDirs(given) == given # <<"None">>

InitDirs(given) ==
    IF given # <<"None">> THEN [i \in 1..Len(given) |-> abspath(given[i])] ELSE <<>>

\* The candidate search list: [test_file_dir] + self.fixtures_dirs
SearchDirs(dirs) == <<dirname(test_file_path)>> \o dirs

\* The inner loop over the search directories for one relative name.
NameCandidates(filename, sdirs, fs, reg) ==
    LET cands == [i \in 1..Len(sdirs) |-> join(sdirs[i], filename)]
        existing == SelectSeq(cands, LAMBDA p : isfile(p, fs))
        supp == supported_extensions(reg)
    IN  IF existing = <<>> THEN Result("ok", <<>>, NoPath)
        ELSE IF supp.kind # "ok" THEN supp
        ELSE Result("ok", SelectSeq(existing,
                              LAMBDA p : InSeq(splitext(p)[2], supp.value)), NoPath)

\* The loop over the explicit names.
RECURSIVE ExplicitFixtures(_, _, _, _)
ExplicitFixtures(names, sdirs, fs, reg) ==
    IF names = <<>> THEN Result("ok", <<>>, NoPath)
    ELSE LET filename == Head(names)
             one == IF isabs(filename) THEN Result("ok", <<filename>>, NoPath)
                    ELSE NameCandidates(filename, sdirs, fs, reg)
             rest == ExplicitFixtures(Tail(names), sdirs, fs, reg)
         IN  IF one.kind # "ok" THEN one
             ELSE IF rest.kind # "ok" THEN rest
             ELSE Result("ok", one.value \o rest.value, NoPath)

\* The convention-based search beside the test file; globbed is glob's list.
ConventionFixtures(globbed, reg) ==
    LET supp == supported_extensions(reg)
    IN  IF globbed = <<>> THEN Result("ok", <<>>, NoPath)
        ELSE IF supp.kind # "ok" THEN supp
        ELSE Result("ok", SelectSeq(globbed,
                              LAMBDA p : InSeq(splitext(p)[2], supp.value)), NoPath)

\* The final check of the resolved list.
CheckFound(found) ==
    IF found.kind # "ok" THEN found
    ELSE IF Len(found.value) = 0 THEN Result("Exception", <<>>, test_file_path)
    ELSE found

find_fixtures(hasdirs, dirs, names, fs, reg, globbed) ==
    IF ~hasdirs THEN Result("AttributeError", <<>>, NoPath)
    ELSE IF Len(names) > 0
         THEN CheckFound(ExplicitFixtures(names, SearchDirs(dirs), fs, reg))
         ELSE CheckFound(ConventionFixtures(globbed, reg))

\* The lists glob may return for the test file, in any directory order.
Globs(fs) == Orderings(GlobSet(splitext(test_file_path)[1], fs))

----------------------------------------------------------------------------
(* The database and the materializer: Fixtures.setup, load_fixtures, teardown *)

\* The tables the schema metadata declares.
DeclaredTables == {"users"}

EmptyDb == [tables |-> {}, rows |-> [t \in DeclaredTables |-> <<>>]]

\* metadata.create_all(engine): creates the declared tables that do not exist.
create_all(d) == [tables |-> d.tables \cup DeclaredTables, rows |-> d.rows]

\* A variant of drop_all that leaves the database as it is.
drop_nothing(d) == d

\* metadata.drop_all(engine): drops the declared tables, and their rows.
drop_all(d) == [tables |-> d.tables \ DeclaredTables,
                rows |-> [t \in DeclaredTables |-> <<>>]]

\* A fixture group; kind is "model", "table" or "none" (neither key present).
Group(k, t, r) == [kind |-> k, target |-> t, records |-> r]

NoGroup == Group("", "", <<>>)

\* importlib.import_module / getattr of a model reference: the mapped classes.
ModelTable(target) == IF target = "m.User" THEN "users" ELSE ""

\* A record is its primary key; 0 is a record with invalid data.
ValidRecord(r) == r # 0

\* Whether inserting recs into table t violates the primary key.
Duplicates(d, t, recs) ==
    \/ \E i \in 1..Len(recs) : InSeq(recs[i], d.rows[t])
    \/ \E i, j \in 1..Len(recs) : i # j /\ recs[i] = recs[j]

\* A variant of Insert that puts the new rows before the rows already there.
InsertFirst(d, t, recs) == [d EXCEPT !.rows[t] = recs \o @]

\* The rows of a table are kept in insertion order.
Insert(d, t, recs) == [d EXCEPT !.rows[t] = @ \o recs]

Applied(d, e, g) == [db |-> d, err |-> e, payload |-> g]

\* The records of recs before the first invalid one.
RECURSIVE ValidPrefix(_)
ValidPrefix(recs) ==
    IF recs = <<>> \/ ~ValidRecord(Head(recs)) THEN <<>>
    ELSE <<Head(recs)>> \o ValidPrefix(Tail(recs))

\* A variant of the model branch that commits inside the records loop.
ModelGroupPerRecord(d, g) ==
    LET t == ModelTable(g.target)
    IN  IF t = "" THEN Applied(d, "ImportError", NoGroup)
        ELSE IF t \notin d.tables THEN Applied(d, "OperationalError", NoGroup)
        ELSE IF Duplicates(d, t, ValidPrefix(g.records))
             THEN Applied(d, "IntegrityError", NoGroup)
        ELSE IF \E i \in 1..Len(g.records) : ~ValidRecord(g.records[i])
             THEN Applied(Insert(d, t, ValidPrefix(g.records)), "TypeError", NoGroup)
        ELSE Applied(Insert(d, t, g.records), "none", NoGroup)

\* The model branch: one session per group, committed after the records loop.
ModelGroup(d, g) ==
    LET t == ModelTable(g.target)
    IN  IF t = "" THEN Applied(d, "ImportError", NoGroup)
        ELSE IF \E i \in 1..Len(g.records) : ~ValidRecord(g.records[i])
             THEN Applied(d, "TypeError", NoGroup)
        ELSE IF t \notin d.tables THEN Applied(d, "OperationalError", NoGroup)
        ELSE IF Duplicates(d, t, g.records) THEN Applied(d, "IntegrityError", NoGroup)
        ELSE Applied(Insert(d, t, g.records), "none", NoGroup)

\* The table branch: one bulk insert on the connection.
TableGroup(d, g) ==
    IF g.target \notin d.tables THEN Applied(d, "OperationalError", NoGroup)
    ELSE IF \E i \in 1..Len(g.records) : ~ValidRecord(g.records[i])
         THEN Applied(d, "IntegrityError", NoGroup)
    ELSE IF Duplicates(d, g.target, g.records) THEN Applied(d, "IntegrityError", NoGroup)
    ELSE Applied(Insert(d, g.target, g.records), "none", NoGroup)

\* A variant of the else branch that passes over the group.
MissingTargetSkipped(d, g) == Applied(d, "none", NoGroup)

\* The else branch: ValueError with json.dumps(fixture) in its message.
MissingTarget(d, g) == Applied(d, "ValueError", g)

\* Fixtures.load_fixtures
RECURSIVE load_fixtures(_, _)
load_fixtures(d, fixtures) ==
    IF fixtures = <<>> THEN Applied(d, "none", NoGroup)
    ELSE LET fixture == Head(fixtures)
             one == IF fixture.kind = "model" THEN ModelGroup(d, fixture)
                    ELSE IF fixture.kind = "table" THEN TableGroup(d, fixture)
                    ELSE MissingTarget(d, fixture)
         IN  IF one.err # "none" THEN one
             ELSE load_fixtures(one.db, Tail(fixtures))

\* The loop of setup over the resolved fixture files.
RECURSIVE LoadAll(_, _, _, _, _, _)
LoadAll(d, fixtures, fs, cont, reg, yaml) ==
    IF fixtures = <<>> THEN Applied(d, "none", NoGroup)
    ELSE LET loaded == load(Head(fixtures), fs, cont, reg, yaml)
         IN  IF loaded.kind # "ok" THEN Applied(d, loaded.kind, NoGroup)
             ELSE LET one == load_fixtures(d, loaded.value)
                  IN  IF one.err # "none" THEN one
                      ELSE LoadAll(one.db, Tail(fixtures), fs, cont, reg, yaml)

\* Fixtures.setup
setup(d, fixtures, fs, cont, reg, yaml) ==
    LoadAll(create_all(d), fixtures, fs, cont, reg, yaml)

\* Fixtures.teardown
teardown(d) == drop_all(d)

\* The errors of materialization, as opposed to those of loading a file.
MaterializationErrors == {"ImportError", "TypeError", "OperationalError",
                          "IntegrityError", "ValueError"}

GroupUniverse == {Group("model", "m.User", <<1>>), Group("model", "m.User", <<2, 0>>),
                  Group("model", "m.Missing", <<1>>), Group("table", "users", <<2, 4>>),
                  Group("table", "users", <<2, 0>>), Group("table", "ghost", <<1>>),
                  Group("none", "", <<1>>)}

Definitions == SeqsUpTo(GroupUniverse, MaxGroups)

\* What the files parse to unless a specification chooses otherwise.
DefaultContent ==
    [p \in FileUniverse \cup {test_file_path} |->
        IF p = Path("/t", "test_x", ".yml") THEN Malformed
        ELSE IF p = Path("/d1", "users", ".json")
             THEN <<Group("table", "users", <<3>>)>>
        ELSE <<Group("table", "users", <<1, 2>>)>>]

----------------------------------------------------------------------------
(* Values of the variables a specification does not use *)

NoRet == [op |-> "none", arg |-> <<>>, kind |-> "none", value |-> <<>>, path |-> NoPath]

NoWrapped == [state |-> "none", fixtures |-> <<>>]

NoOutcome == [kind |-> "none", stage |-> "none", error |-> "none"]

NoHook == [fname |-> "", body |-> <<>>]

NoCall == [name |-> "", ran |-> <<>>, err |-> "none", fresh |-> FALSE]

NoWcResult == [kind |-> "none", message |-> <<>>]

IdleWrap ==
    /\ wrapped = NoWrapped /\ pc = "idle" /\ pending = "none" /\ log = <<>>
    /\ outcome = NoOutcome /\ runs = 0

IdleClass ==
    /\ cls = [a \in {} |-> NoHook] /\ orig_cls = [a \in {} |-> NoHook]
    /\ cls_fixtures = <<>> /\ wc_result = NoWcResult /\ last_call = NoCall
    /\ calls = 0

IdleDb == db = EmptyDb /\ session = 0 /\ handles = 0

IdleCalls == hist = <<>>

----------------------------------------------------------------------------
(* The resolver and the registry called directly *)

InitResolve ==
    /\ \E given \in DirsGiven :
          /\ has_fixtures_dirs = InitHasDirs(given)
          /\ fixtures_dirs = InitDirs(given)
    /\ \E fs \in SUBSET FileUniverse :
          /\ Cardinality(fs) <= MaxFiles
          /\ files = fs \cup {test_file_path}
    /\ content = DefaultContent
    /\ subclasses \in Registries
    /\ yaml_installed \in BOOLEAN
    /\ ret = NoRet
    /\ IdleDb /\ IdleCalls /\ IdleWrap /\ IdleClass

CallFindFixtures ==
    /\ ret = NoRet
    /\ \E names \in SeqsUpTo(NameUniverse, MaxNames), globbed \in Globs(files) :
          LET r == find_fixtures(has_fixtures_dirs, fixtures_dirs, names, files,
                                 subclasses, globbed)
          IN  ret' = [op |-> "find_fixtures", arg |-> names, kind |-> r.kind,
                      value |-> r.value, path |-> r.path]
    /\ UNCHANGED <<envVars, hist, dbVars, wrapVars, classVars>>

CallLoad ==
    /\ ret = NoRet
    /\ \E filename \in FileUniverse \cup {test_file_path} :
          LET r == load(filename, files, content, subclasses, yaml_installed)
          IN  ret' = [op |-> "load", arg |-> <<filename>>, kind |-> r.kind,
                      value |-> r.value, path |-> r.path]
    /\ UNCHANGED <<envVars, hist, dbVars, wrapVars, classVars>>

\* The caller takes the result, or the exception, and goes on.
Return ==
    /\ ret # NoRet
    /\ ret' = NoRet
    /\ UNCHANGED <<envVars, hist, dbVars, wrapVars, classVars>>

NextResolve == CallFindFixtures \/ CallLoad \/ Return

SpecResolve == InitResolve /\ [][NextResolve]_vars

----------------------------------------------------------------------------
(* Claims about the resolver and the registry *)

\* C8: find_fixtures called with a single explicit absolute path returns
\* exactly the list holding that path, whether or not the file exists and
\* whether or not fixture directories were configured.
C8_AbsolutePathReturned ==
    (ret.op = "find_fixtures" /\ Len(ret.arg) = 1 /\ isabs(ret.arg[1]))
        => (ret.kind = "ok" /\ ret.value = ret.arg)

\* The extensions the registered loaders declare.
DeclaredExtensions ==
    UNION {Range(subclasses[i].extensions) : i \in 1..Len(subclasses)}

\* A name is found when it is absolute, or a file of that name with a declared
\* extension lies in the test file's directory or a configured directory.
NameFound(name) ==
    \/ isabs(name)
    \/ \E d \in {dirname(test_file_path)} \cup Range(fixtures_dirs) :
          join(d, name) \in files /\ name.ext \in DeclaredExtensions

\* Nothing resolves: explicit names none of which is found, or no names and no
\* file beside the test file that shares its name and has a declared extension.
NothingResolves(names) ==
    IF names # <<>> THEN \A i \in 1..Len(names) : ~NameFound(names[i])
    ELSE \A p \in GlobSet(splitext(test_file_path)[1], files) :
            p.ext \notin DeclaredExtensions

\* C9: whenever nothing resolves, find_fixtures fails with the not-found error
\* naming the test file, and it never returns an empty list.
C9_EmptyResolutionIsNotFound ==
    ret.op = "find_fixtures" =>
        /\ (ret.kind = "ok" => ret.value # <<>>)
        /\ (NothingResolves(ret.arg) =>
                (ret.kind = "Exception" /\ ret.path = test_file_path))

\* C10: load of a path whose extension no registered loader declares fails with
\* the unsupported-format error naming the path.
C10_UnsupportedFormatError ==
    (ret.op = "load" /\ ret.arg[1].ext \notin DeclaredExtensions)
        => (ret.kind = "UnsupportedFormat" /\ ret.path = ret.arg[1])

\* C11: load of a path that is not a file always fails with the not-found
\* error naming that path, whatever the extension of the path and whatever
\* loaders are registered; no other error is raised for it.
C11_MissingFileIsNotFound ==
    (ret.op = "load" /\ ret.arg[1] \notin files)
        => (ret.kind = "IOError" /\ ret.path = ret.arg[1] /\ ret.value = <<>>)

\* load has been called on a missing path whose extension no loader declares,
\* and on a missing path whose extension the JSON loader declares.
C11_Witness ==
    /\ ret.op = "load" /\ ret.arg[1] \notin files /\ ret.kind = "IOError"
    /\ ret.arg[1].ext \notin DeclaredExtensions

C11_WitnessSupported ==
    /\ ret.op = "load" /\ ret.arg[1] \notin files /\ ret.kind = "IOError"
    /\ ret.arg[1].ext = ".json"

\* The registry as it would be were the loaders without extensions absent.
WithoutBare(reg) == SelectSeq(reg, LAMBDA c : c.has_extensions)

\* What the last call returned or raised.
Returned == Result(ret.kind, ret.value, ret.path)

\* C13: a loader registered without an extensions attribute is left out of
\* dispatch and is never fatal: load and find_fixtures end as they would were
\* that loader not registered.
C13_ExtensionlessLoaderIgnored ==
    /\ ret.op = "load" =>
          Returned = load(ret.arg[1], files, content, WithoutBare(subclasses),
                          yaml_installed)
    /\ ret.op = "find_fixtures" =>
          \E globbed \in Globs(files) :
              Returned = find_fixtures(has_fixtures_dirs, fixtures_dirs, ret.arg, files,
                                       WithoutBare(subclasses), globbed)

\* The one path an explicit name stands for: itself when absolute, otherwise
\* its path in the first directory of the search list that holds a file of
\* that name with a declared extension; nothing when no directory does.
FirstOnly(name) ==
    IF isabs(name) THEN <<name>>
    ELSE LET sdirs == SearchDirs(fixtures_dirs)
             hits == SelectSeq([i \in 1..Len(sdirs) |-> join(sdirs[i], name)],
                               LAMBDA p : p \in files /\ p.ext \in DeclaredExtensions)
         IN  IF hits = <<>> THEN <<>> ELSE <<Head(hits)>>

\* C15: each explicit relative name contributes at most one path to the
\* resolved list, the one of the first directory of the search list that holds
\* it, even when later directories hold a file of that name too.
C15_FirstDirectoryWins ==
    (ret.op = "find_fixtures" /\ ret.kind = "ok" /\ ret.arg # <<>>)
        => /\ Len(ret.value) <= Len(ret.arg)
           /\ ret.value = Flatten([i \in 1..Len(ret.arg) |-> FirstOnly(ret.arg[i])])

\* The search list the resolver is to use: the test file's directory, then the
\* configured directories in their order; the test file's directory alone
\* when no directories were configured.
ExpectedSearchList ==
    <<dirname(test_file_path)>> \o (IF has_fixtures_dirs THEN fixtures_dirs ELSE <<>>)

\* C16: however the Fixtures object was constructed, with fixture directories
\* or with none, find_fixtures builds the search list from the test file's
\* directory followed by the configured directories and resolves with it.
C16_SearchListAlwaysBuilt ==
    ret.op = "find_fixtures" =>
        \E globbed \in Globs(files) :
            Returned =
                IF ret.arg # <<>>
                THEN CheckFound(ExplicitFixtures(ret.arg, ExpectedSearchList, files,
                                                 subclasses))
                ELSE CheckFound(ConventionFixtures(globbed, subclasses))

----------------------------------------------------------------------------
(* A test function wrapped by wrap_method, and its invocations *)

\* The fixture names the decorator is given: none (the convention applies),
\* a name found in a configured directory, two names, an absolute path of no
\* file, and a name that exists with an unsupported extension.
DecoratorArgs == {<<>>, <<Path("", "users", ".json")>>,
                  <<Path("", "test_x", ".json"), Path("", "users", ".json")>>,
                  <<Path("/x", "other", ".txt")>>, <<Path("", "test_x", ".txt")>>}

InitWrap ==
    /\ \E given \in {<<"None">>, <<"/d1">>} :
          /\ has_fixtures_dirs = InitHasDirs(given)
          /\ fixtures_dirs = InitDirs(given)
    /\ files = {test_file_path, Path("/t", "test_x", ".json"),
                Path("/t", "test_x", ".txt"), Path("/d1", "users", ".json")}
    /\ \E d \in Definitions \cup {Malformed} :
          content = [DefaultContent EXCEPT ![Path("/t", "test_x", ".json")] = d]
    /\ subclasses = <<JSONLoader, YAMLLoader>>
    /\ yaml_installed = TRUE
    /\ ret = NoRet
    /\ IdleDb /\ IdleCalls /\ IdleWrap /\ IdleClass

\* wrap_method: resolves the fixtures once, when the function is decorated.
WrapMethod ==
    /\ pc = "idle" /\ runs < MaxRuns
    /\ \E names \in DecoratorArgs, globbed \in Globs(files) :
          LET r == find_fixtures(has_fixtures_dirs, fixtures_dirs, names, files,
                                 subclasses, globbed)
          IN  wrapped' = [state |-> r.kind, fixtures |-> r.value]
    /\ UNCHANGED <<envVars, hist, ret, dbVars, pc, pending, log, outcome, runs, classVars>>

\* A variant in which the wrapper goes on to the test body after setup raised.
AfterSetupErrorRunsBody == "body"

\* Where the wrapper goes when self.setup(fixtures) raises: setup is called
\* before the try statement, so the exception leaves the wrapper at once.
AfterSetupError == "idle"

\* Where the wrapper goes after the test body: the finally clause, whether
\* the body returned or raised.
AfterBodyNoFinally(raised) == IF raised THEN "exit" ELSE "finally"

AfterBody(raised) == "finally"

\* wrapper, up to the try statement: self.setup(fixtures), then the session.
WrapperSetup ==
    /\ pc = "idle" /\ wrapped.state = "ok" /\ runs < MaxRuns
    /\ runs' = runs + 1
    /\ LET s == setup(db, wrapped.fixtures, files, content, subclasses, yaml_installed)
       IN  /\ db' = s.db
           /\ IF s.err = "none"
              THEN /\ session' = handles + 1
                   /\ handles' = handles + 1
                   /\ log' = <<"setup", "session">>
                   /\ pc' = "body"
                   /\ outcome' = NoOutcome
              ELSE /\ UNCHANGED <<session, handles>>
                   /\ log' = <<"setup raised">>
                   /\ pc' = AfterSetupError
                   /\ outcome' = [kind |-> "raised", stage |-> "setup", error |-> s.err]
    /\ pending' = "none"
    /\ UNCHANGED <<envVars, hist, ret, wrapped, classVars>>

\* What the test body may write through the session: one row of its own.
BodyWrites(d) ==
    IF "users" \in d.tables /\ ~InSeq(9, d.rows["users"])
    THEN Insert(d, "users", <<9>>) ELSE d

\* method(_self, *args, **kwargs): the test body returns or raises.
WrapperBody ==
    /\ pc = "body"
    /\ \E raised \in BOOLEAN, writes \in BOOLEAN :
          /\ db' = IF writes THEN BodyWrites(db) ELSE db
          /\ pending' = IF raised THEN "raise" ELSE "return"
          /\ pc' = AfterBody(raised)
    /\ log' = Append(log, "body")
    /\ UNCHANGED <<envVars, hist, ret, session, handles, wrapped, outcome, runs, classVars>>

\* The finally clause: self.teardown()
WrapperFinally ==
    /\ pc = "finally"
    /\ db' = teardown(db)
    /\ log' = Append(log, "teardown")
    /\ pc' = "exit"
    /\ UNCHANGED <<envVars, hist, ret, session, handles, wrapped, pending, outcome, runs,
                   classVars>>

\* The wrapper returns to its caller, or the body's exception reaches it.
WrapperExit ==
    /\ pc = "exit"
    /\ outcome' = IF pending = "raise"
                  THEN [kind |-> "raised", stage |-> "body", error |-> "BodyError"]
                  ELSE [kind |-> "returned", stage |-> "body", error |-> "none"]
    /\ pending' = "none"
    /\ pc' = "idle"
    /\ UNCHANGED <<envVars, hist, ret, dbVars, wrapped, log, runs, classVars>>

NextWrap == WrapMethod \/ WrapperSetup \/ WrapperBody \/ WrapperFinally \/ WrapperExit

SpecWrap == InitWrap /\ [][NextWrap]_vars

----------------------------------------------------------------------------
(* Claims about the wrapped test function *)

Count(s, x) == Cardinality({i \in 1..Len(s) : s[i] = x})

\* C1: in an invocation whose setup completed, teardown is invoked exactly
\* once, after the test body, whether the body returned or raised, and the
\* wrapper leaves (the body's exception reaches the caller) only after teardown.
C1_TeardownOnceAfterBody ==
    /\ Count(log, "teardown") <= 1
    /\ InSeq("teardown", log) => log = <<"setup", "session", "body", "teardown">>
    /\ (pc = "exit" \/ outcome.stage = "body") =>
          (log = <<"setup", "session", "body", "teardown">> /\ db = EmptyDb)

\* C1 witness: the body raised, teardown ran, and the caller has the exception.
C1_Witness ==
    /\ pc = "idle" /\ outcome.kind = "raised" /\ outcome.stage = "body"
    /\ log = <<"setup", "session", "body", "teardown">>

\* C2: when a materialization error aborts setup, teardown still runs for that
\* invocation, so the tables that setup created are dropped before the error
\* reaches the caller.
C2_TeardownAfterFailedSetup ==
    (outcome.kind = "raised" /\ outcome.stage = "setup"
        /\ outcome.error \in MaterializationErrors)
        => (InSeq("teardown", log) /\ db.tables = {})

\* C3: when an invocation's setup begins, the database holds no tables and no
\* rows of an earlier invocation.
C3_NothingSurvivesInvocations == pc = "idle" => db = EmptyDb

\* The errors setup can raise: those of loading a file and those of
\* materializing its groups.
SetupErrors == {"IOError", "NameError", "ParseError"} \cup MaterializationErrors

\* C20: in every invocation of the wrapped function the test body runs only
\* after setup completed and the session was made; when setup raises, the body
\* is not run and the caller gets the error setup raised.
C20_BodyOnlyAfterSetup ==
    /\ (pc = "body" \/ InSeq("body", log)) =>
          (Len(log) >= 2 /\ log[1] = "setup" /\ log[2] = "session")
    /\ InSeq("setup raised", log) =>
          /\ log = <<"setup raised">> /\ pc = "idle"
          /\ outcome.kind = "raised" /\ outcome.stage = "setup"
          /\ outcome.error \in SetupErrors

\* An invocation whose setup raised on a fixture group has ended, with tables
\* left in the database by the part of setup that ran.
C20_Witness ==
    /\ runs >= 1 /\ pc = "idle" /\ log = <<"setup raised">>
    /\ outcome.stage = "setup" /\ outcome.error \in MaterializationErrors
    /\ db.tables # {}

----------------------------------------------------------------------------
(* A test class bound by wrap_class, and calls of its class-level hooks *)

DEFAULT_CLASS_SETUP_NAME == "setUpClass"

DEFAULT_CLASS_TEARDOWN_NAME == "tearDownClass"

CLASS_SETUP_NAMES ==
    <<"setup_class", "setup_all", "setupClass", "setupAll", "setUpClass", "setUpAll">>

CLASS_TEARDOWN_NAMES ==
    <<"teardown_class", "teardown_all", "teardownClass", "teardownAll",
      "tearDownClass", "tearDownAll">>

\* The attributes of the class the model follows: the aliases, and "helper",
\* the __name__ of a function bound to an alias under another name.
AttrNames == Range(CLASS_SETUP_NAMES) \cup Range(CLASS_TEARDOWN_NAMES) \cup {"helper"}

\* What a hook does when called, one step after the other.
Op(o, a) == [op |-> o, id |-> a]

\* A hook the class defines itself: a classmethod whose function is named
\* fname and whose body is the user's own.
OrigHook(alias, fname) == [fname |-> fname, body |-> <<Op("orig", alias)>>]

\* getattr(cls, name, None) for name in names, filtered of None
Methods(c, names) ==
    SelectSeq([i \in 1..Len(names) |-> c[names[i]]], LAMBDA h : h # NoHook)

\* len(methods) > 1
TooManyLax(methods) == Len(methods) > 2

TooMany(methods) == Len(methods) > 1

\* ', '.join(fn.__name__ for fn in methods)
FoundNames(methods) == [i \in 1..Len(methods) |-> methods[i].fname]

\* The wrapper of an existing hook: fixtures_fn(), cls.session, wrapped_method;
\* functools.update_wrapper gives it the wrapped method's __name__.
OneHookWrapper(fixtures_op, wrapped_method) ==
    [fname |-> wrapped_method.fname,
     body |-> <<Op(fixtures_op, ""), Op("session", "")>> \o wrapped_method.body]

\* The wrapper installed when the class has no hook: fixtures_fn() alone.
DefaultWrapperWithSession(fixtures_op) ==
    [fname |-> "wrapper", body |-> <<Op(fixtures_op, ""), Op("session", "")>>]

DefaultWrapper(fixtures_op) == [fname |-> "wrapper", body |-> <<Op(fixtures_op, "")>>]

Bound(c, k, m) == [cls |-> c, kind |-> k, message |-> m]

\* The function wrap_method nested in wrap_class.
wrap_hook(c, fixtures_op, names, default_name) ==
    LET methods == Methods(c, names)
    IN  IF TooMany(methods) THEN Bound(c, "RuntimeError", FoundNames(methods))
        ELSE IF Len(methods) = 1
             THEN LET wrapper == OneHookWrapper(fixtures_op, methods[1])
                  IN  Bound([c EXCEPT ![wrapper.fname] = wrapper], "ok", <<>>)
             ELSE Bound([c EXCEPT ![default_name] = DefaultWrapper(fixtures_op)],
                        "ok", <<>>)

\* Fixtures.wrap_class, given what find_fixtures returned for the class.
wrap_class(c, found) ==
    IF found.kind # "ok" THEN Bound(c, found.kind, <<>>)
    ELSE LET s == wrap_hook(c, "setup", CLASS_SETUP_NAMES, DEFAULT_CLASS_SETUP_NAME)
         IN  IF s.kind # "ok" THEN s
             ELSE wrap_hook(s.cls, "teardown", CLASS_TEARDOWN_NAMES,
                            DEFAULT_CLASS_TEARDOWN_NAME)

\* Running the steps of a hook: an exception ends the call.
RECURSIVE RunOps(_, _)
RunOps(ops, st) ==
    IF ops = <<>> \/ st.err # "none" THEN st
    ELSE LET o == Head(ops)
             st1 == [st EXCEPT !.ran = Append(@, o)]
         IN  IF o.op = "setup"
             THEN LET r == setup(st.db, cls_fixtures, files, content, subclasses,
                                 yaml_installed)
                  IN  RunOps(Tail(ops), [st1 EXCEPT !.db = r.db, !.err = r.err])
             ELSE IF o.op = "teardown"
                  THEN RunOps(Tail(ops), [st1 EXCEPT !.db = teardown(st.db)])
             ELSE IF o.op = "session"
                  THEN RunOps(Tail(ops), [st1 EXCEPT !.session = st.handles + 1,
                                                     !.handles = st.handles + 1,
                                                     !.fresh = TRUE])
             ELSE RunOps(Tail(ops), st1)

\* The aliases a class of the model may define before it is bound.
SetupCandidates == {"setup_class", "setUpClass", "setUpAll"}

TeardownCandidates == {"teardown_class", "tearDownClass", "tearDownAll"}

InitClass ==
    /\ \E given \in {<<"None">>, <<>>} :
          /\ has_fixtures_dirs = InitHasDirs(given)
          /\ fixtures_dirs = InitDirs(given)
    /\ files = {test_file_path, Path("/t", "test_x", ".json")}
    /\ content = DefaultContent
    /\ subclasses = <<JSONLoader, YAMLLoader>>
    /\ yaml_installed = TRUE
    /\ ret = NoRet
    /\ IdleDb /\ IdleCalls /\ IdleWrap
    /\ \E S \in SUBSET SetupCandidates, T \in SUBSET TeardownCandidates :
          /\ Cardinality(S) <= MaxHooks /\ Cardinality(T) <= MaxHooks
          /\ \E own \in [S \cup T -> BOOLEAN] :
                cls = [a \in AttrNames |->
                         IF a \in S \cup T
                         THEN OrigHook(a, IF own[a] THEN a ELSE "helper")
                         ELSE NoHook]
    /\ orig_cls = cls
    /\ cls_fixtures = <<>> /\ wc_result = NoWcResult /\ last_call = NoCall
    /\ calls = 0

\* The decorator applied to the class.
WrapClass ==
    /\ wc_result = NoWcResult
    /\ \E names \in {<<>>, <<Path("/x", "other", ".txt")>>}, globbed \in Globs(files) :
          LET found == find_fixtures(has_fixtures_dirs, fixtures_dirs, names, files,
                                     subclasses, globbed)
              b == wrap_class(cls, found)
          IN  /\ cls' = b.cls
              /\ cls_fixtures' = found.value
              /\ wc_result' = [kind |-> b.kind, message |-> b.message]
    /\ UNCHANGED <<envVars, hist, ret, dbVars, wrapVars, orig_cls, last_call, calls>>

\* The test runner, or anyone, calls a class-level hook of the bound class.
CallHook ==
    /\ wc_result.kind = "ok" /\ calls < MaxCalls
    /\ \E name \in AttrNames :
          /\ cls[name] # NoHook
          /\ LET st == RunOps(cls[name].body,
                              [db |-> db, session |-> session, handles |-> handles,
                               ran |-> <<>>, err |-> "none", fresh |-> FALSE])
             IN  /\ db' = st.db
                 /\ session' = st.session
                 /\ handles' = st.handles
                 /\ last_call' = [name |-> name, ran |-> st.ran, err |-> st.err,
                                  fresh |-> st.fresh]
    /\ calls' = calls + 1
    /\ UNCHANGED <<envVars, hist, ret, wrapVars, cls, orig_cls, cls_fixtures, wc_result>>

NextClass == WrapClass \/ CallHook

SpecClass == InitClass /\ [][NextClass]_vars

----------------------------------------------------------------------------
(* Claims about the bound class *)

\* The aliases of one kind the class defined before it was bound.
Present(names) == {a \in Range(names) : orig_cls[a] # NoHook}

\* wrap_class got past the resolution of the class's fixtures.
Resolved == wc_result.kind \in {"ok", "RuntimeError"}

\* The hook runs the fixture action once and first, and the original body of
\* alias a once and after it.
FixtureThenOriginal(ran, fixtures_op, a) ==
    /\ ran # <<>>
    /\ ran[1] = Op(fixtures_op, "")
    /\ ran[Len(ran)] = Op("orig", a)
    /\ Count(ran, Op(fixtures_op, "")) = 1
    /\ Count(ran, Op("orig", a)) = 1

\* C4 for one kind of hook: with exactly one alias, the hook under that
\* alias's name is fixture action first, original body second, once each, and
\* so is every completed call of it.
C4_Kind(names, fixtures_op) ==
    \A a \in Present(names) :
        Cardinality(Present(names)) = 1 =>
            /\ FixtureThenOriginal(cls[a].body, fixtures_op, a)
            /\ (last_call.name = a /\ last_call.err = "none")
                   => FixtureThenOriginal(last_call.ran, fixtures_op, a)

\* C4: on a class with exactly one setup alias (one teardown alias), the hook
\* installed under that alias's name runs fixture setup (teardown) first and
\* then the original body, each exactly once per call.
C4_OneHookWrapped ==
    wc_result.kind = "ok" =>
        /\ C4_Kind(CLASS_SETUP_NAMES, "setup")
        /\ C4_Kind(CLASS_TEARDOWN_NAMES, "teardown")

\* The names of the hooks of one kind the class defined, in the order of the
\* alias list.
ConflictingNames(names) ==
    [i \in 1..Cardinality(Present(names)) |->
        orig_cls[CHOOSE a \in Present(names) :
                    Cardinality({b \in Present(names) :
                        \E j, k \in 1..Len(names) :
                            names[j] = b /\ names[k] = a /\ j < k}) = i - 1].fname]

\* C5: binding a class with more than one setup alias, or more than one
\* teardown alias, fails with the configuration error, whose message names
\* every conflicting hook found.
C5_ConflictIsFatal ==
    (Resolved /\ (Cardinality(Present(CLASS_SETUP_NAMES)) > 1
                    \/ Cardinality(Present(CLASS_TEARDOWN_NAMES)) > 1))
        => /\ wc_result.kind = "RuntimeError"
           /\ wc_result.message =
                 IF Cardinality(Present(CLASS_SETUP_NAMES)) > 1
                 THEN ConflictingNames(CLASS_SETUP_NAMES)
                 ELSE ConflictingNames(CLASS_TEARDOWN_NAMES)

\* C5 witness: bound with two teardown aliases and a single setup alias.
C5_Witness ==
    /\ wc_result.kind = "RuntimeError"
    /\ Cardinality(Present(CLASS_SETUP_NAMES)) = 1
    /\ Cardinality(Present(CLASS_TEARDOWN_NAMES)) = 2
    /\ Len(wc_result.message) = 2

\* C6 for one kind of hook: with no alias, the default name holds a hook that
\* does the fixture action and nothing else.
C6_Kind(names, default_name, fixtures_op) ==
    Present(names) = {} =>
        /\ cls[default_name] # NoHook
        /\ cls[default_name].body = <<Op(fixtures_op, "")>>
        /\ last_call.name = default_name =>
              (last_call.ran = <<Op(fixtures_op, "")>> /\ ~last_call.fresh)

\* C6: on a class with no setup alias (no teardown alias), wrap_class installs
\* under setUpClass (tearDownClass) a hook that performs only fixture setup
\* (teardown).
C6_DefaultHookInstalled ==
    wc_result.kind = "ok" =>
        /\ C6_Kind(CLASS_SETUP_NAMES, DEFAULT_CLASS_SETUP_NAME, "setup")
        /\ C6_Kind(CLASS_TEARDOWN_NAMES, DEFAULT_CLASS_TEARDOWN_NAME, "teardown")

\* C6 witness: a class without hooks, bound, whose new setUpClass and then
\* tearDownClass have been called.
C6_Witness ==
    /\ wc_result.kind = "ok"
    /\ Present(CLASS_SETUP_NAMES) = {} /\ Present(CLASS_TEARDOWN_NAMES) = {}
    /\ calls = 2 /\ last_call.name = DEFAULT_CLASS_TEARDOWN_NAME
    /\ last_call.ran = <<Op("teardown", "")>>
    /\ db = EmptyDb

\* The name under which the runner finds the class-level setup hook of the
\* bound class: the alias the class defined, or the default name.
SetupHookNames ==
    IF Present(CLASS_SETUP_NAMES) = {} THEN {DEFAULT_CLASS_SETUP_NAME}
    ELSE Present(CLASS_SETUP_NAMES)

\* C7: each successful run of the class-level setup hook of a bound class
\* leaves a fresh session assigned to the class's session attribute.
C7_SessionAfterClassSetup ==
    (wc_result.kind = "ok" /\ last_call.name \in SetupHookNames
        /\ last_call.err = "none")
        => (last_call.fresh /\ session = handles /\ session > 0)

\* C19: when wrap_class fails with the multiple-hook configuration error the
\* class is left as it was: no attribute has been installed or replaced, and in
\* particular no setup hook when the conflict is among the teardown aliases.
C19_FailedBindingLeavesClass ==
    wc_result.kind = "RuntimeError" => cls = orig_cls

----------------------------------------------------------------------------
(* The materializer called directly: Fixtures.setup and Fixtures.teardown *)

\* The fixture file beside the test file, whose definition varies, and the
\* fixture file of the configured directory.
F1 == Path("/t", "test_x", ".json")
F2 == Path("/d1", "users", ".json")

\* The resolved lists setup is given.
SetupArgs == {<<F1>>, <<F1, F2>>, <<F2, F1>>}

InitMaterialize ==
    /\ has_fixtures_dirs = TRUE /\ fixtures_dirs = <<"/d1">>
    /\ files = {test_file_path, F1, F2}
    /\ \E def \in Definitions \cup {Malformed} :
          content = [DefaultContent EXCEPT ![F1] = def]
    /\ subclasses = <<JSONLoader, YAMLLoader>>
    /\ yaml_installed = TRUE
    /\ ret = NoRet
    /\ IdleDb /\ IdleCalls /\ IdleWrap /\ IdleClass

\* One call: what it was given, the error it raised ("none": it returned), the
\* group a ValueError reports, and the database it left.
Call(o, a, r) == [op |-> o, arg |-> a, kind |-> r.err, payload |-> r.payload, db |-> r.db]

CallSetup ==
    /\ Len(hist) < MaxSteps
    /\ \E fixtures \in SetupArgs :
          LET r == setup(db, fixtures, files, content, subclasses, yaml_installed)
          IN  /\ db' = r.db
              /\ hist' = Append(hist, Call("setup", fixtures, r))
    /\ UNCHANGED <<envVars, ret, session, handles, wrapVars, classVars>>

CallTeardown ==
    /\ Len(hist) < MaxSteps
    /\ db' = teardown(db)
    /\ hist' = Append(hist, Call("teardown", <<>>, Applied(teardown(db), "none", NoGroup)))
    /\ UNCHANGED <<envVars, ret, session, handles, wrapVars, classVars>>

NextMaterialize == CallSetup \/ CallTeardown

SpecMaterialize == InitMaterialize /\ [][NextMaterialize]_vars

\* The database the i-th call started from.
Before(i) == IF i = 1 THEN EmptyDb ELSE hist[i - 1].db

\* The records of a definition's groups, group after group.
Records(def) == Flatten([j \in 1..Len(def) |-> def[j].records])

\* The records of the listed files, file after file.
FileRecords(fixtures) ==
    Flatten([j \in 1..Len(fixtures) |-> Records(content[fixtures[j]])])

----------------------------------------------------------------------------
(* Claims about the materializer *)

\* A model group whose class resolves and one of whose records the class
\* rejects when it is constructed.
RejectedModelGroup(g) ==
    /\ g.kind = "model" /\ ModelTable(g.target) # ""
    /\ \E j \in 1..Len(g.records) : ~ValidRecord(g.records[j])

TableGroupsOf(def) == SelectSeq(def, LAMBDA g : g.kind = "table")

\* The i-th call was a setup that failed constructing a record of a model group.
ConstructionFailed(i) == hist[i].op = "setup" /\ hist[i].kind = "TypeError"

\* The rows the i-th call left are those it started from, then the records of
\* the files before the f-th, then the records kept(the first k groups of the
\* f-th file), where group k+1 of that file is the one that failed.
LeftRows(i, f, k, kept(_)) ==
    LET def == content[hist[i].arg[f]]
    IN  /\ k < Len(def) /\ RejectedModelGroup(def[k + 1])
        /\ hist[i].db.rows["users"] =
               Before(i).rows["users"] \o FileRecords(SubSeq(hist[i].arg, 1, f - 1))
                   \o Records(kept(SubSeq(def, 1, k)))

\* C12: records of model groups are committed once per file: when constructing
\* a record of any model group of a file fails, no row of any model group of
\* that file has been committed (only rows of its table groups were inserted).
C12_CommitOncePerFile ==
    \A i \in 1..Len(hist) :
        ConstructionFailed(i) =>
            \E f \in 1..Len(hist[i].arg), k \in 0..MaxGroups :
                LeftRows(i, f, k, TableGroupsOf)

AllGroupsOf(def) == def

\* C12, amended: records of model groups are committed once per group: when
\* constructing a record of a model group fails, no row of that group has been
\* committed, and the rows of every earlier group of the file, model groups
\* included, stay committed.
C12_CommitOncePerGroup ==
    \A i \in 1..Len(hist) :
        ConstructionFailed(i) =>
            \E f \in 1..Len(hist[i].arg), k \in 0..MaxGroups :
                LeftRows(i, f, k, AllGroupsOf)

\* The second group of the file failed on a record after its first group, a
\* model group, was committed.
C12_Witness ==
    /\ Len(hist) = 1 /\ ConstructionFailed(1) /\ hist[1].arg = <<F1>>
    /\ Len(content[F1]) = 2 /\ content[F1][1].kind = "model"
    /\ hist[1].db.rows["users"] = content[F1][1].records
    /\ hist[1].db.rows["users"] # <<>>

\* Calls i and i+1 are a cycle: a setup that succeeded, then teardown at once.
Cycle(i) ==
    /\ i + 1 <= Len(hist)
    /\ hist[i].op = "setup" /\ hist[i].kind = "none"
    /\ hist[i + 1].op = "teardown"

\* C14: a successful setup followed at once by teardown leaves no declared
\* table and no row, and a second such cycle with the same fixtures ends in
\* the state the first cycle ended in.
C14_CycleIsIdempotent ==
    \A i \in 1..Len(hist) :
        Cycle(i) =>
            /\ hist[i + 1].db.tables \cap DeclaredTables = {}
            /\ \A t \in DeclaredTables : hist[i + 1].db.rows[t] = <<>>
            /\ \A j \in 1..(i - 1) :
                  (Cycle(j) /\ hist[j].arg = hist[i].arg)
                      => hist[i + 1].db = hist[j + 1].db

\* Two cycles with the same fixtures were run one after the other, and each
\* setup inserted rows.
C14_Witness ==
    /\ Len(hist) = 4 /\ Cycle(1) /\ Cycle(3) /\ hist[1].arg = hist[3].arg
    /\ hist[1].db.rows["users"] # <<>> /\ hist[3].db = hist[1].db
    /\ db = EmptyDb

\* C17: materialization follows the resolved order: after a successful setup
\* the rows are those present before, then the records of the resolved files
\* in list order, of each file's groups in definition order, of each group in
\* the order given, with the values given.
C17_RowsInResolvedOrder ==
    \A i \in 1..Len(hist) :
        (hist[i].op = "setup" /\ hist[i].kind = "none") =>
            hist[i].db.rows["users"] =
                Before(i).rows["users"] \o FileRecords(hist[i].arg)

\* A setup succeeded on two files, the second of which has two groups, one of
\* them with two records.
C17_Witness ==
    /\ Len(hist) = 1 /\ hist[1].op = "setup" /\ hist[1].kind = "none"
    /\ hist[1].arg = <<F2, F1>> /\ Len(content[F1]) = 2
    /\ content[F1][1].kind = "table" /\ content[F1][2].kind = "model"
    /\ Len(db.rows["users"]) = 4

\* What the i-th call, a setup, had done when it came to group k of the f-th
\* file of its list.
Reached(i, f, k) ==
    LET files_before == LoadAll(create_all(Before(i)), SubSeq(hist[i].arg, 1, f - 1),
                                files, content, subclasses, yaml_installed)
    IN  IF files_before.err # "none" THEN files_before
        ELSE load_fixtures(files_before.db, SubSeq(content[hist[i].arg[f]], 1, k - 1))

\* C18: a group with neither a model nor a table key is fatal wherever it
\* stands in its file: a setup whose files hold such a group never succeeds,
\* and when the materializer comes to the group it raises the ValueError that
\* carries the group's payload, leaving what the earlier groups inserted.
C18_MissingTargetIsFatal ==
    \A i \in 1..Len(hist) :
        hist[i].op = "setup" =>
            \A f \in 1..Len(hist[i].arg) :
                \A k \in 1..Len(content[hist[i].arg[f]]) :
                    LET g == content[hist[i].arg[f]][k]
                    IN  g.kind = "none" =>
                           /\ hist[i].kind # "none"
                           /\ Reached(i, f, k).err = "none" =>
                                 /\ hist[i].kind = "ValueError"
                                 /\ hist[i].payload = g
                                 /\ hist[i].db = Reached(i, f, k).db

\* A setup failed on such a group standing second in its file, after the
\* first group was inserted.
C18_Witness ==
    /\ Len(hist) = 1 /\ hist[1].op = "setup" /\ hist[1].arg = <<F1>>
    /\ Len(content[F1]) = 2 /\ content[F1][2].kind = "none"
    /\ hist[1].kind = "ValueError" /\ hist[1].payload = content[F1][2]
    /\ db.rows["users"] = content[F1][1].records /\ db.rows["users"] # <<>>

====
